---- MODULE Spec2Model ----
(***************************************************************************)
(* Settings resolution and type coercion of ford (src/ford/settings.py):   *)
(* the Settings dataclass with its __post_init__, normalise_paths, and the *)
(* two loaders load_toml_settings and load_markdown_settings.              *)
(*                                                                         *)
(* A Python str is a sequence of one-character strings, so that lower(),   *)
(* set(str), "\n".join, int() and the parsing of a path are computed.      *)
(* A Python value is a record [t |-> <type name>, v |-> <payload>].        *)
(***************************************************************************)
EXTENDS Integers, Sequences, FiniteSets, TLC

VARIABLES
    written,     \* the configuration as written by the user: key -> item
    pc,          \* "start", "built", "normalised", "error", "none"
    source,      \* which entry point ran: "none", "direct", "toml", "md"
    kwargs,      \* the keyword arguments handed to Settings(**...)
    settings,    \* the Settings instance (a function over Fields), or NoInst
    err,         \* the exception raised, or NoErr
    directory,   \* the directory of the latest normalise_paths call
    toml_out,    \* result of load_toml_settings on `written` (SpecConv)
    md_out       \* result of load_markdown_settings on `written` (SpecConv)

vars == <<written, pc, source, kwargs, settings, err, directory, toml_out, md_out>>

----------------------------------------------------------------------------
(* Python values                                                           *)

Str(s) == [t |-> "str", v |-> s]
Bool(b) == [t |-> "bool", v |-> b]
PyInt(n) == [t |-> "int", v |-> n]
List(xs) == [t |-> "list", v |-> xs]
PosixPath(parts) == [t |-> "PosixPath", v |-> parts]
None == [t |-> "NoneType", v |-> <<>>]

\* list(set(...)): a list holding each element of S once, in the order of
\* set iteration, which Python leaves unspecified; the order is not modelled.
ListOfSet(S) == [t |-> "list(set)", v |-> S]

\* type(value)
TypeOf(x) == IF x.t = "list(set)" THEN "list" ELSE x.t

\* isinstance(value, list)
IsList(x) == TypeOf(x) = "list"

Range(f) == {f[i] : i \in DOMAIN f}

\* the elements of a list value
Elems(x) == IF x.t = "list(set)" THEN x.v ELSE Range(x.v)

\* len(list)
ListLen(x) == IF x.t = "list(set)" THEN Cardinality(x.v) ELSE Len(x.v)

\* a == b on values: a list built from a set equals a list when some order of
\* the set gives that list
PyEq(a, b) ==
    IF a.t = "list(set)" \/ b.t = "list(set)"
    THEN IsList(a) /\ IsList(b) /\ Elems(a) = Elems(b) /\ ListLen(a) = ListLen(b)
    ELSE a = b

----------------------------------------------------------------------------
(* str operations                                                          *)

UpperCase == <<"A","B","C","D","E","F","G","H","I","J","K","L","M",
               "N","O","P","Q","R","S","T","U","V","W","X","Y","Z">>
LowerCase == <<"a","b","c","d","e","f","g","h","i","j","k","l","m",
               "n","o","p","q","r","s","t","u","v","w","x","y","z">>
Digits == <<"0","1","2","3","4","5","6","7","8","9">>

LowerChar(c) ==
    IF \E i \in DOMAIN UpperCase : UpperCase[i] = c
    THEN LowerCase[CHOOSE i \in DOMAIN UpperCase : UpperCase[i] = c]
    ELSE c

\* str.lower()
lower(s) == [i \in DOMAIN s |-> LowerChar(s[i])]

\* sep.join(xs) for a sequence xs of str
RECURSIVE join(_, _)
join(sep, xs) ==
    IF Len(xs) = 0 THEN <<>>
    ELSE IF Len(xs) = 1 THEN xs[1]
    ELSE xs[1] \o sep \o join(sep, Tail(xs))

IsDigit(c) == \E i \in DOMAIN Digits : Digits[i] = c
DigitValue(c) == (CHOOSE i \in DOMAIN Digits : Digits[i] = c) - 1

\* the text int() accepts in base 10: an optional sign and decimal digits
IsIntLiteral(s) ==
    LET body == IF Len(s) > 0 /\ s[1] \in {"+", "-"} THEN Tail(s) ELSE s
    IN  Len(body) > 0 /\ \A i \in DOMAIN body : IsDigit(body[i])

RECURSIVE DigitsValue(_)
DigitsValue(s) ==
    IF Len(s) = 0 THEN 0
    ELSE 10 * DigitsValue(SubSeq(s, 1, Len(s) - 1)) + DigitValue(s[Len(s)])

\* int(s) for an accepted literal
ParseInt(s) ==
    IF s[1] = "-" THEN 0 - DigitsValue(Tail(s))
    ELSE IF s[1] = "+" THEN DigitsValue(Tail(s))
    ELSE DigitsValue(s)

----------------------------------------------------------------------------
(* pathlib                                                                 *)

Root == <<"/">>

\* the components of s between "/" separators
RECURSIVE SplitSlash(_, _)
SplitSlash(s, cur) ==
    IF Len(s) = 0 THEN <<cur>>
    ELSE IF s[1] = "/" THEN <<cur>> \o SplitSlash(Tail(s), <<>>)
    ELSE SplitSlash(Tail(s), Append(cur, s[1]))

\* pathlib drops empty and "." components
KeepPart(p) == p # <<>> /\ p # <<".">>

\* the parts of Path(s): the root first when s is absolute
ParseParts(s) ==
    LET comps == SelectSeq(SplitSlash(s, <<>>), KeepPart)
    IN  IF Len(s) > 0 /\ s[1] = "/" THEN <<Root>> \o comps ELSE comps

\* Path(x) for a str or a Path
ToPath(x) == IF x.t = "PosixPath" THEN x ELSE PosixPath(ParseParts(x.v))

\* Path.is_absolute()
IsAbsolute(p) == Len(p.v) > 0 /\ p.v[1] = Root

\* base / other
JoinPath(base, other) ==
    IF IsAbsolute(other) THEN other ELSE PosixPath(base.v \o other.v)

----------------------------------------------------------------------------
(* String literals                                                         *)

s_empty == <<>>
s_newline == <<"\n">>
s_public == <<"p","u","b","l","i","c">>
s_protected == <<"p","r","o","t","e","c","t","e","d">>
s_Public == <<"P","u","b","l","i","c">>
s_private == <<"p","r","i","v","a","t","e">>
s_bang == <<"!">>
s_star == <<"*">>
s_gt == <<">">>
s_bar == <<"|">>
s_f90 == <<"f","9","0">>
s_f95 == <<"f","9","5">>
s_f03 == <<"f","0","3">>
s_f08 == <<"f","0","8">>
s_f15 == <<"f","1","5">>
s_F90 == <<"F","9","0">>
s_F95 == <<"F","9","5">>
s_F03 == <<"F","0","3">>
s_F08 == <<"F","0","8">>
s_F15 == <<"F","1","5">>
s_F == <<"F">>
s_FOR == <<"F","O","R">>
s_favicon_png == <<"f","a","v","i","c","o","n",".","p","n","g">>
s_doc == <<"d","o","c">>
s_dot_doc == <<".","/","d","o","c">>
s_dot_src == <<".","/","s","r","c">>
s_true == <<"t","r","u","e">>
s_false == <<"f","a","l","s","e">>
s_yes == <<"y","e","s">>
s_no == <<"n","o">>
s_y == <<"y">>
s_n == <<"n">>
s_0 == <<"0">>
s_1 == <<"1">>
s_Yes == <<"Y","e","s">>
s_TRUE == <<"T","R","U","E">>
s_No == <<"N","o">>
s_maybe == <<"m","a","y","b","e">>
s_5 == <<"5">>
s_abc == <<"a","b","c">>
s_Ann == <<"A","n","n">>
s_Bob == <<"B","o","b">>
s_my_css == <<"m","y",".","c","s","s">>
s_a_f90 == <<"a",".","f","9","0">>
s_A1 == <<"A","=","1">>
s_abs_fav == <<"/","a","b","s","/","f","a","v",".","p","n","g">>
s_md == <<"/","m","d">>
s_abs_doc == <<"/","a","b","s","/","d","o","c">>
s_out == <<"o","u","t">>
s_url == <<"h","t","t","p",":","/","/","x">>
s_lib == <<"l","i","b">>
s_abs_src == <<"/","a","b","s","/","s","r","c">>
s_proj == <<"/","p","r","o","j">>
s_cwd == <<"/","c","w","d">>
s_site_ford == <<"/","s","i","t","e","/","f","o","r","d">>

----------------------------------------------------------------------------
(* The schema: the fields of the Settings dataclass.  One field of every   *)
(* declared type is modelled, and every field the code treats specially.   *)

Fields == {"author", "css", "display", "docmark", "docmark_alt", "exclude",
           "extensions", "favicon", "fpp_extensions", "graph", "macro",
           "max_frontpage_items", "md_base_dir", "output_dir", "predocmark",
           "predocmark_alt", "project_url", "relative", "src_dir"}

\* relative: bool = field(init=False)
InitFields == Fields \ {"relative"}

\* get_type_hints(Settings)[key]
FieldType(key) ==
    CASE key = "author" -> "Optional[str]"
      [] key = "css" -> "Optional[Path]"
      [] key = "display" -> "List[str]"
      [] key = "docmark" -> "str"
      [] key = "docmark_alt" -> "str"
      [] key = "exclude" -> "List[str]"
      [] key = "extensions" -> "List[str]"
      [] key = "favicon" -> "Path"
      [] key = "fpp_extensions" -> "list"
      [] key = "graph" -> "bool"
      [] key = "macro" -> "list"
      [] key = "max_frontpage_items" -> "int"
      [] key = "md_base_dir" -> "Optional[Path]"
      [] key = "output_dir" -> "Path"
      [] key = "predocmark" -> "str"
      [] key = "predocmark_alt" -> "str"
      [] key = "project_url" -> "str"
      [] key = "relative" -> "bool"
      [] key = "src_dir" -> "List[Path]"

FAVICON_PATH == PosixPath(ParseParts(s_favicon_png))

\* the declared default of every field that has one
FieldDefault(key) ==
    CASE key = "author" -> None
      [] key = "css" -> None
      [] key = "display" -> List(<<Str(s_public), Str(s_protected)>>)
      [] key = "docmark" -> Str(s_bang)
      [] key = "docmark_alt" -> Str(s_star)
      [] key = "exclude" -> List(<<>>)
      [] key = "extensions" ->
            List(<<Str(s_f90), Str(s_f95), Str(s_f03), Str(s_f08), Str(s_f15)>>)
      [] key = "favicon" -> FAVICON_PATH
      [] key = "fpp_extensions" ->
            List(<<Str(s_F90), Str(s_F95), Str(s_F03), Str(s_F08), Str(s_F15),
                   Str(s_F), Str(s_FOR)>>)
      [] key = "graph" -> Bool(FALSE)
      [] key = "macro" -> List(<<>>)
      [] key = "max_frontpage_items" -> PyInt(10)
      [] key = "md_base_dir" -> None
      [] key = "output_dir" -> PosixPath(ParseParts(s_dot_doc))
      [] key = "predocmark" -> Str(s_gt)
      [] key = "predocmark_alt" -> Str(s_bar)
      [] key = "project_url" -> Str(s_empty)
      [] key = "src_dir" -> List(<<PosixPath(ParseParts(s_dot_src))>>)

----------------------------------------------------------------------------
(* typing                                                                  *)

\* typing.get_origin
get_origin(tp) ==
    CASE tp \in {"List[str]", "List[Path]"} -> "list"
      [] tp \in {"Optional[str]", "Optional[Path]"} -> "Union"
      [] OTHER -> "None"

\* typing.get_args
get_args(tp) ==
    CASE tp = "List[str]" -> {"str"}
      [] tp = "List[Path]" -> {"Path"}
      [] tp = "Optional[str]" -> {"str", "NoneType"}
      [] tp = "Optional[Path]" -> {"Path", "NoneType"}
      [] OTHER -> {}

is_optional_type(tp, sub_tp) ==
    IF get_origin(tp) # "Union" THEN FALSE ELSE sub_tp \in get_args(tp)

is_same_type(type_in, tp) == (type_in = tp) \/ is_optional_type(type_in, tp)

----------------------------------------------------------------------------
(* Exceptions and results                                                  *)

NoInst == [none |-> TRUE]

\* An exception: its type, the statement raising it, and what its message
\* shows: the setting names and the values formatted into it.
Error(type, site, names, shows) ==
    [type |-> type, site |-> site, names |-> names, shows |-> shows]

NoErr == Error("none", "none", {}, {})

\* What a call gives back: an instance, None, or a raised exception
Ok(inst) == [status |-> "instance", inst |-> inst, err |-> NoErr]
ReturnsNone == [status |-> "none", inst |-> NoInst, err |-> NoErr]
Fail(e) == [status |-> "raised", inst |-> NoInst, err |-> e]

\* What a conversion gives back: a value, or a raised exception
Val(v) == [ok |-> TRUE, val |-> v, err |-> NoErr]
Raise(e) == [ok |-> FALSE, val |-> None, err |-> e]

----------------------------------------------------------------------------
(* Settings.__post_init__                                                  *)

\* an attribute not assigned yet (relative before __post_init__ sets it)
Unset == [t |-> "unset", v |-> <<>>]

\* variant: the flag taken from the URL being None rather than empty
relative_flag_is_none(s) == Bool(PyEq(s["project_url"], None))

\* self.relative = self.project_url == ""
relative_flag(s) == Bool(PyEq(s["project_url"], Str(s_empty)))

\* variant: the wrapping without the test of the declared type's origin
promote_any_scalar(s) ==
    [key \in DOMAIN s |->
        IF is_same_type(FieldType(key), TypeOf(s[key])) THEN s[key]
        ELSE IF ~IsList(s[key]) THEN List(<<s[key]>>)
        ELSE s[key]]

\* the loop over asdict(self): a non-list value of a field whose declared
\* type has origin list is wrapped in a list
promote_scalars(s) ==
    [key \in DOMAIN s |->
        IF is_same_type(FieldType(key), TypeOf(s[key])) THEN s[key]
        ELSE IF get_origin(FieldType(key)) = "list" /\ ~IsList(s[key])
             THEN List(<<s[key]>>)
        ELSE s[key]]

\* self.display = [item.lower() for item in self.display]
lower_display(s) ==
    [s EXCEPT !["display"] =
        List([i \in DOMAIN s["display"].v |-> Str(lower(s["display"].v[i].v))])]

\* set(x): the characters of a str, the elements of a list
PySet(x) ==
    IF x.t = "str" THEN {Str(<<x.v[i]>>) : i \in DOMAIN x.v} ELSE Elems(x)

\* self.extensions = list(set(self.extensions) | set(self.fpp_extensions))
union_extensions(s) ==
    [s EXCEPT !["extensions"] =
        ListOfSet(PySet(s["extensions"]) \cup PySet(s["fpp_extensions"]))]

docmarks == <<"docmark", "predocmark", "docmark_alt", "predocmark_alt">>

\* itertools.combinations(docmarks, 2), as index pairs in the order generated
Combinations2 == {p \in (DOMAIN docmarks) \X (DOMAIN docmarks) : p[1] < p[2]}
ComesFirst(p, q) == p[1] < q[1] \/ (p[1] = q[1] /\ p[2] <= q[2])

DocmarkError(s, p) ==
    Error("ValueError", "__post_init__",
          {docmarks[p[1]], docmarks[p[2]]},
          {s[docmarks[p[1]]], s[docmarks[p[2]]]})

\* variant: the comparison without the != "" part
check_docmarks_any_equal(s) ==
    LET same == {p \in Combinations2 : PyEq(s[docmarks[p[1]]], s[docmarks[p[2]]])}
    IN  IF same = {} THEN NoErr
        ELSE DocmarkError(s, CHOOSE p \in same : \A q \in same : ComesFirst(p, q))

\* the first pair with first_mark == second_mark != "" raises
check_docmarks(s) ==
    LET same == {p \in Combinations2 :
                    /\ PyEq(s[docmarks[p[1]]], s[docmarks[p[2]]])
                    /\ ~PyEq(s[docmarks[p[2]]], Str(s_empty))}
    IN  IF same = {} THEN NoErr
        ELSE DocmarkError(s, CHOOSE p \in same : \A q \in same : ComesFirst(p, q))

\* Settings.__post_init__
post_init(s0) ==
    LET s1 == [s0 EXCEPT !["relative"] = relative_flag(s0)]
        s2 == promote_scalars(s1)
        s3 == lower_display(s2)
        s4 == union_extensions(s3)
        e  == check_docmarks(s4)
    IN  IF e = NoErr THEN Ok(s4) ELSE Fail(e)

\* Settings(**kw): the generated __init__ (a keyword that is no init field is
\* a TypeError; a missing one takes its default), then __post_init__
Settings(kw) ==
    LET unexpected == DOMAIN kw \ InitFields
    IN  IF unexpected # {}
        THEN Fail(Error("TypeError", "__init__", {CHOOSE k \in unexpected : TRUE}, {}))
        ELSE post_init([key \in Fields |->
                            IF key \in DOMAIN kw THEN kw[key]
                            ELSE IF key \in InitFields THEN FieldDefault(key)
                            ELSE Unset])

----------------------------------------------------------------------------
(* Settings.normalise_paths                                                *)

\* Path.cwd()
Cwd == PosixPath(ParseParts(s_cwd))

\* Path(__file__).parent: the directory of the settings module
ModuleDir == PosixPath(ParseParts(s_site_ford))

\* Path.absolute()
absolute(p) == IF IsAbsolute(p) THEN p ELSE JoinPath(Cwd, p)

\* ford.utils.normalise_path: path made absolute, relative to base_dir; an
\* absolute path is kept as it is
normalise_path(base_dir, path) == absolute(JoinPath(base_dir, ToPath(path)))

\* directory = Path.cwd() if directory is None; Path(directory).absolute()
resolve_directory(arg) == IF arg = None THEN absolute(Cwd) ELSE absolute(ToPath(arg))

\* if self.favicon == FAVICON_PATH: self.favicon = Path(__file__).parent / FAVICON_PATH
substitute_favicon(s) ==
    IF PyEq(s["favicon"], FAVICON_PATH)
    THEN [s EXCEPT !["favicon"] = JoinPath(ModuleDir, FAVICON_PATH)]
    ELSE s

\* the loop over asdict(self) in normalise_paths
normalise_fields(s, dir) ==
    [key \in DOMAIN s |->
        IF is_same_type(FieldType(key), TypeOf(s[key])) THEN s[key]
        ELSE IF is_same_type(FieldType(key), "List[Path]")
             THEN List([i \in DOMAIN s[key].v |-> normalise_path(dir, s[key].v[i])])
        ELSE IF is_same_type(FieldType(key), "Path")
             THEN normalise_path(dir, s[key])
        ELSE s[key]]

\* if self.md_base_dir is None: self.md_base_dir = directory
default_md_base_dir(s, dir) ==
    IF s["md_base_dir"] = None THEN [s EXCEPT !["md_base_dir"] = dir] ELSE s

\* variant: md_base_dir assigned without the test for None
normalise_paths_reset_md_base_dir(s, arg) ==
    LET dir == resolve_directory(arg)
    IN  [normalise_fields(substitute_favicon(s), dir) EXCEPT !["md_base_dir"] = dir]

\* variant: without the substitution of the bundled favicon
normalise_paths_plain_favicon(s, arg) ==
    LET dir == resolve_directory(arg)
    IN  default_md_base_dir(normalise_fields(s, dir), dir)

\* Settings.normalise_paths(directory)
normalise_paths(s, arg) ==
    LET dir == resolve_directory(arg)
    IN  default_md_base_dir(normalise_fields(substitute_favicon(s), dir), dir)

----------------------------------------------------------------------------
(* convert_to_bool and the conversions of load_markdown_settings           *)

TrueSpellings == {s_true, s_yes, s_y, s_1}
FalseSpellings == {s_false, s_no, s_n, s_0}

\* ford.utils.str_to_bool: the strict, case-insensitive true/false grammar
str_to_bool(text) ==
    IF text.t = "bool" THEN Val(text)
    ELSE IF lower(text.v) \in TrueSpellings THEN Val(Bool(TRUE))
    ELSE IF lower(text.v) \in FalseSpellings THEN Val(Bool(FALSE))
    ELSE Raise(Error("ValueError", "str_to_bool", {}, {text}))

\* variant: the first value taken without the test of the length
convert_to_bool_first_value(name, option) ==
    IF option.t = "bool" THEN Val(option)
    ELSE IF ListLen(option) = 0
    THEN Raise(Error("IndexError", "convert_to_bool", {}, {}))
    ELSE IF str_to_bool(option.v[1]).ok THEN str_to_bool(option.v[1])
    ELSE Raise(Error("ValueError", "convert_to_bool", {name}, {option.v[1]}))

\* convert_to_bool(name, option)
convert_to_bool(name, option) ==
    IF option.t = "bool" THEN Val(option)
    ELSE IF ListLen(option) > 1
    THEN Raise(Error("ValueError", "convert_to_bool", {name}, {option}))
    ELSE IF ListLen(option) = 0
    THEN Raise(Error("IndexError", "convert_to_bool", {}, {}))
    ELSE IF str_to_bool(option.v[1]).ok THEN str_to_bool(option.v[1])
    ELSE Raise(Error("ValueError", "convert_to_bool", {name}, {option.v[1]}))

\* int(value[0]): the ValueError of int() shows the literal alone
convert_to_int(value) ==
    IF IsIntLiteral(value.v[1].v) THEN Val(PyInt(ParseInt(value.v[1].v)))
    ELSE Raise(Error("ValueError", "int", {}, {value.v[1]}))

\* "\n".join(value)
join_lines(value) ==
    Str(join(s_newline, [i \in DOMAIN value.v |-> value.v[i].v]))

\* one pass of the loop over settings.items() in load_markdown_settings
coerce(key, value) ==
    IF is_same_type(FieldType(key), TypeOf(value)) THEN Val(value)
    ELSE IF is_same_type(FieldType(key), "list") THEN Val(List(<<value>>))
    ELSE IF is_same_type(FieldType(key), "bool") THEN convert_to_bool(key, value)
    ELSE IF is_same_type(FieldType(key), "int") THEN convert_to_int(value)
    ELSE IF /\ (is_same_type(FieldType(key), "str") \/ is_same_type(FieldType(key), "Path"))
            /\ IsList(value)
         THEN Val(join_lines(value))
    ELSE Val(value)

EmptyDict == [key \in {} |-> None]

\* the whole loop over the dict (a sequence of <<key, value>> in insertion
\* order): the first conversion that raises ends it
RECURSIVE coerce_all(_)
coerce_all(items) ==
    IF Len(items) = 0 THEN Val(EmptyDict)
    ELSE LET c == coerce(items[1][1], items[1][2])
         IN  IF ~c.ok THEN c
             ELSE LET rest == coerce_all(Tail(items))
                  IN  IF ~rest.ok THEN rest
                      ELSE Val((items[1][1] :> c.val) @@ rest.val)

\* ford.utils.meta_preprocessor: the "key: value" lines of the preamble (a
\* sequence of <<key, text>>); a repeated key accumulates its values in a list
RECURSIVE meta_preprocessor(_, _)
meta_preprocessor(lines, meta) ==
    IF Len(lines) = 0 THEN meta
    ELSE LET key == lines[1][1]
             at  == {i \in DOMAIN meta : meta[i][1] = key}
         IN  IF at = {}
             THEN meta_preprocessor(Tail(lines),
                                    Append(meta, <<key, List(<<Str(lines[1][2])>>)>>))
             ELSE meta_preprocessor(Tail(lines),
                    [i \in DOMAIN meta |->
                        IF i \in at
                        THEN <<key, List(Append(meta[i][2].v, Str(lines[1][2])))>>
                        ELSE meta[i]])

\* MD_INCLUDE_RE.match(value): the legacy "{! file !}" inclusion marker
md_include_match(value) ==
    value.t = "str" /\ Len(value.v) >= 2 /\ value.v[1] = "{" /\ value.v[2] = "!"

\* load_markdown_settings, for a preamble that uses no file inclusion
load_markdown_settings(lines) ==
    LET c == coerce_all(meta_preprocessor(lines, <<>>))
    IN  IF ~c.ok THEN Fail(c.err) ELSE Settings(c.val)

\* load_toml_settings: doc.is_file says whether fpm.toml exists, doc.data is
\* the parsed document: the tables it has, and the [extra.ford] table
load_toml_settings(doc) ==
    IF ~doc.is_file THEN ReturnsNone
    ELSE IF "extra" \notin doc.tables THEN ReturnsNone
    ELSE IF "ford" \notin doc.extra_tables THEN ReturnsNone
    ELSE Settings(doc.ford)

----------------------------------------------------------------------------
(* The configurations explored.  An item is one logical value of a key,    *)
(* written natively (py: what Settings(...) or the TOML table holds) and   *)
(* as preamble lines (md: the texts of its "key: value" lines).            *)

MaxKeys == 2     \* at most this many keys are written

NoPy == [t |-> "absent", v |-> <<>>]
Item(py, md) == [py |-> py, md |-> md]

Items(key) ==
    CASE key = "author" -> {Item(Str(s_Ann \o s_newline \o s_Bob), <<s_Ann, s_Bob>>)}
      [] key = "css" -> {Item(Str(s_my_css), <<s_my_css>>)}
      [] key = "display" -> {Item(List(<<Str(s_Public)>>), <<s_Public>>),
                             Item(Str(s_private), <<s_private>>)}
      [] key = "docmark" -> {Item(Str(s_gt), <<s_gt>>), Item(Str(s_empty), <<s_empty>>)}
      [] key = "docmark_alt" -> {Item(Str(s_bar), <<s_bar>>),
                                 Item(Str(s_empty), <<s_empty>>)}
      [] key = "exclude" -> {Item(Str(s_a_f90), <<s_a_f90>>)}
      [] key = "extensions" -> {Item(List(<<Str(s_f90), Str(s_F90)>>), <<s_f90, s_F90>>),
                                Item(Str(s_f90), <<s_f90>>)}
      [] key = "favicon" -> {Item(Str(s_favicon_png), <<s_favicon_png>>),
                             Item(PosixPath(ParseParts(s_favicon_png)), <<>>),
                             Item(Str(s_abs_fav), <<s_abs_fav>>)}
      [] key = "fpp_extensions" -> {Item(List(<<Str(s_F90)>>), <<s_F90>>),
                                    Item(Str(s_F90), <<s_F90>>)}
      [] key = "graph" -> {Item(Bool(TRUE), <<s_true>>), Item(Bool(TRUE), <<s_Yes>>),
                           Item(Bool(TRUE), <<s_y>>), Item(Bool(TRUE), <<s_1>>),
                           Item(Bool(TRUE), <<s_TRUE>>),
                           Item(Bool(FALSE), <<s_false>>), Item(Bool(FALSE), <<s_No>>),
                           Item(Bool(FALSE), <<s_n>>), Item(Bool(FALSE), <<s_0>>),
                           Item(NoPy, <<s_maybe>>), Item(NoPy, <<s_true, s_false>>)}
      [] key = "macro" -> {Item(Str(s_A1), <<s_A1>>)}
      [] key = "max_frontpage_items" -> {Item(PyInt(5), <<s_5>>), Item(NoPy, <<s_abc>>)}
      [] key = "md_base_dir" -> {Item(Str(s_md), <<s_md>>)}
      [] key = "output_dir" -> {Item(Str(s_abs_doc), <<s_abs_doc>>),
                                Item(Str(s_out), <<s_out>>)}
      [] key = "predocmark" -> {Item(Str(s_bang), <<s_bang>>),
                                Item(Str(s_empty), <<s_empty>>)}
      [] key = "predocmark_alt" -> {Item(Str(s_star), <<s_star>>),
                                    Item(Str(s_empty), <<s_empty>>)}
      [] key = "project_url" -> {Item(Str(s_url), <<s_url>>),
                                 Item(Str(s_empty), <<s_empty>>)}
      [] key = "relative" -> {Item(Bool(FALSE), <<s_false>>)}
      [] key = "src_dir" -> {Item(Str(s_lib), <<s_lib>>),
                             Item(List(<<Str(s_abs_src), Str(s_lib)>>), <<s_abs_src, s_lib>>)}

\* every configuration of at most n keys
RECURSIVE WrittenUpTo(_)
WrittenUpTo(n) ==
    IF n = 0 THEN {EmptyDict}
    ELSE LET S == WrittenUpTo(n - 1)
         IN  S \cup {(key :> it) @@ w :
                        <<w, key, it>> \in
                            {x \in S \X Fields \X UNION {Items(k) : k \in Fields} :
                                x[2] \notin DOMAIN x[1] /\ x[3] \in Items(x[2])}}

\* the directory arguments of normalise_paths: None, an absolute and a
\* relative directory
DirArgs == {None, Str(s_proj), Str(s_lib)}

\* the native form: the keyword arguments of Settings(...), the TOML table
PyKwargs(w) == [key \in DOMAIN w |-> w[key].py]
HasPy(w) == \A key \in DOMAIN w : w[key].py # NoPy

\* TOML has strings, booleans, integers and arrays
TomlValue(x) == x.t \in {"str", "bool", "int"}
                \/ (x.t = "list" /\ \A i \in DOMAIN x.v : x.v[i].t = "str")
HasToml(w) == \A key \in DOMAIN w : TomlValue(w[key].py)

\* fpm.toml: missing, without [extra], without [extra.ford], or with it
TomlShapes == {"absent", "no_extra", "no_ford", "ford"}
TomlDoc(shape, w) ==
    [is_file |-> shape # "absent",
     tables |-> IF shape = "no_extra" THEN {"build"} ELSE {"build", "extra"},
     extra_tables |-> IF shape = "ford" THEN {"ford"} ELSE {},
     ford |-> PyKwargs(w)]

\* the preamble: the lines of the keys, the keys in the order given
HasMd(w) == \A key \in DOMAIN w : Len(w[key].md) > 0
Orders(K) == {o \in [1..Cardinality(K) -> K] : \A i, j \in DOMAIN o : o[i] = o[j] => i = j}
KeyLines(key, texts) == [i \in DOMAIN texts |-> <<key, texts[i]>>]
RECURSIVE Preamble(_, _)
Preamble(w, order) ==
    IF Len(order) = 0 THEN <<>>
    ELSE KeyLines(order[1], w[order[1]].md) \o Preamble(w, Tail(order))

\* the keyword arguments of the call of Settings, when it was reached
Passed(kw) == [passed |-> TRUE, kw |-> kw]
NoKwargs == [passed |-> FALSE, kw |-> EmptyDict]
NotRun == [status |-> "not run", inst |-> NoInst, err |-> NoErr]

----------------------------------------------------------------------------
(* The state machine                                                       *)

Init ==
    /\ written \in WrittenUpTo(MaxKeys)
    /\ pc = "start"
    /\ source = "none"
    /\ kwargs = NoKwargs
    /\ settings = NoInst
    /\ err = NoErr
    /\ directory = None
    /\ toml_out = NotRun
    /\ md_out = NotRun

\* the outcome of a call that builds the instance
Finish(r) ==
    /\ pc' = IF r.status = "instance" THEN "built"
             ELSE IF r.status = "none" THEN "none" ELSE "error"
    /\ settings' = r.inst
    /\ err' = r.err

\* Settings(**kw) called directly
Construct ==
    /\ pc = "start"
    /\ HasPy(written)
    /\ source' = "direct"
    /\ kwargs' = Passed(PyKwargs(written))
    /\ Finish(Settings(PyKwargs(written)))
    /\ UNCHANGED <<written, directory, toml_out, md_out>>

\* load_toml_settings(directory)
LoadToml ==
    /\ pc = "start"
    /\ HasToml(written)
    /\ \E shape \in TomlShapes :
          /\ kwargs' = IF shape = "ford" THEN Passed(PyKwargs(written)) ELSE NoKwargs
          /\ Finish(load_toml_settings(TomlDoc(shape, written)))
    /\ source' = "toml"
    /\ UNCHANGED <<written, directory, toml_out, md_out>>

\* load_markdown_settings(directory, project_file)
LoadMarkdown ==
    /\ pc = "start"
    /\ HasMd(written)
    /\ \E order \in Orders(DOMAIN written) :
          LET lines == Preamble(written, order)
              c == coerce_all(meta_preprocessor(lines, <<>>))
          IN  /\ c.ok => \A key \in DOMAIN c.val : ~md_include_match(c.val[key])
              /\ kwargs' = IF c.ok THEN Passed(c.val) ELSE NoKwargs
              /\ Finish(load_markdown_settings(lines))
    /\ source' = "md"
    /\ UNCHANGED <<written, directory, toml_out, md_out>>

\* settings.normalise_paths(arg)
NormalisePaths ==
    /\ pc \in {"built", "normalised"}
    /\ \E arg \in DirArgs :
          /\ settings' = normalise_paths(settings, arg)
          /\ directory' = resolve_directory(arg)
    /\ pc' = "normalised"
    /\ UNCHANGED <<written, source, kwargs, err, toml_out, md_out>>

Next == Construct \/ LoadToml \/ LoadMarkdown \/ NormalisePaths

Spec == Init /\ [][Next]_vars

----------------------------------------------------------------------------
(* Both loaders run on one configuration                                   *)

ConvLoadToml ==
    /\ toml_out = NotRun
    /\ HasToml(written) /\ HasMd(written)
    /\ toml_out' = load_toml_settings(TomlDoc("ford", written))
    /\ UNCHANGED <<written, pc, source, kwargs, settings, err, directory, md_out>>

ConvLoadMarkdown ==
    /\ md_out = NotRun
    /\ HasToml(written) /\ HasMd(written)
    /\ \E order \in Orders(DOMAIN written) :
          md_out' = load_markdown_settings(Preamble(written, order))
    /\ UNCHANGED <<written, pc, source, kwargs, settings, err, directory, toml_out>>

NextConv == ConvLoadToml \/ ConvLoadMarkdown

SpecConv == Init /\ [][NextConv]_vars

----------------------------------------------------------------------------
(* Properties                                                              *)

HasInstance == pc \in {"built", "normalised"}

ListFields == {key \in Fields : FieldType(key) \in {"List[str]", "List[Path]", "list"}}
BoolFields == {key \in Fields : FieldType(key) = "bool"}
PathFields == {key \in Fields : FieldType(key) \in {"Path", "Optional[Path]"}}
PathListFields == {key \in Fields : FieldType(key) = "List[Path]"}

\* C1 as stated: every schema key absent from the raw input holds exactly
\* its declared default in the constructed instance, 'extensions' and
\* 'display' included.
C1_AbsentKeysHoldDefault ==
    pc = "built" =>
        \A key \in InitFields \ DOMAIN written :
            PyEq(settings[key], FieldDefault(key))

\* C1 amended: every schema key absent from the raw input, other than
\* 'extensions', holds exactly its declared default in the constructed
\* instance; an absent 'extensions' holds every element of its default
\* (together with what fpp_extensions adds to it).
C1_AbsentKeysHoldDefaultExceptExtensions ==
    pc = "built" =>
        \A key \in InitFields \ DOMAIN written :
            IF key = "extensions"
            THEN IsList(settings[key])
                 /\ Elems(FieldDefault(key)) \subseteq Elems(settings[key])
            ELSE settings[key] = FieldDefault(key)

C1_Witness ==
    /\ pc = "built"
    /\ source = "md"
    /\ DOMAIN written = {"graph", "project_url"}
    /\ settings["display"] = List(<<Str(s_public), Str(s_protected)>>)
    /\ settings["favicon"] = PosixPath(<<s_favicon_png>>)
    /\ settings["max_frontpage_items"] = PyInt(10)

\* C2: every list-typed key (List[str], List[Path] and untyped list alike)
\* given a scalar raw value at construction holds [scalar] in the instance
\* (for 'extensions', which is then unioned, [scalar]'s element is in it);
\* a list input stays a list.
C2_ScalarPromotedToList ==
    pc = "built" =>
        \A key \in ListFields \cap DOMAIN kwargs.kw :
            IF IsList(kwargs.kw[key]) THEN IsList(settings[key])
            ELSE IF key = "extensions"
                 THEN IsList(settings[key]) /\ kwargs.kw[key] \in Elems(settings[key])
            ELSE settings[key] = List(<<kwargs.kw[key]>>)

C3_TrueWords == {s_true, s_yes, s_y, s_1}
C3_FalseWords == {s_false, s_no, s_n, s_0}
C3_Converted(key, b) ==
    /\ ~(err.site \in {"convert_to_bool", "str_to_bool"} /\ key \in err.names)
    /\ kwargs.passed => kwargs.kw[key] = Bool(b)
    /\ HasInstance => settings[key] = Bool(b)
C3_Rejected ==
    /\ pc = "error"
    /\ err.type = "ValueError"
    /\ ~kwargs.passed
\* C3: in load_markdown_settings a boolean key whose raw value is a list of
\* strings becomes True for one recognized true spelling, False for one
\* recognized false spelling (any letter case), and the load raises for a
\* list of more than one element and for any other single string.
C3_MarkdownBooleans ==
    (source = "md" /\ pc # "start") =>
        \A key \in BoolFields \cap DOMAIN written :
            LET raw == written[key].md
            IN  IF Len(raw) > 1 THEN C3_Rejected
                ELSE IF lower(raw[1]) \in C3_TrueWords THEN C3_Converted(key, TRUE)
                ELSE IF lower(raw[1]) \in C3_FalseWords THEN C3_Converted(key, FALSE)
                ELSE C3_Rejected

C3_Witness ==
    /\ source = "md"
    /\ pc = "built"
    /\ "graph" \in DOMAIN written
    /\ written["graph"].md = <<s_Yes>>
    /\ settings["graph"] = Bool(TRUE)

\* C4: every coercion failure in load_markdown_settings raises an error that
\* identifies both the offending key and the bad raw value, and no Settings
\* instance is returned.
C4_CoercionErrorNamesKeyAndValue ==
    (source = "md" /\ pc = "error" /\ ~kwargs.passed) =>
        /\ \E key \in DOMAIN written :
              /\ err.names = {key}
              /\ \/ err.shows = {List([i \in DOMAIN written[key].md |->
                                          Str(written[key].md[i])])}
                 \/ err.shows = {Str(written[key].md[1])}
        /\ ~HasInstance


C5_Markers == {"docmark", "predocmark", "docmark_alt", "predocmark_alt"}
C5_Marker(key) ==
    IF key \in DOMAIN kwargs.kw THEN kwargs.kw[key] ELSE FieldDefault(key)
C5_Collisions ==
    {pair \in SUBSET C5_Markers :
        /\ Cardinality(pair) = 2
        /\ \A a, b \in pair : C5_Marker(a) = C5_Marker(b)
        /\ \A a \in pair : C5_Marker(a) # Str(<<>>)}
\* C5: construction succeeds only if docmark, predocmark, docmark_alt and
\* predocmark_alt (supplied or defaulted) are pairwise distinct wherever the
\* shared value is non-empty; otherwise it raises an error naming two
\* conflicting settings and their shared value; markers that are all the
\* empty string are accepted.
C5_DocmarksDistinct ==
    /\ HasInstance =>
          \A a, b \in C5_Markers :
              (a # b /\ settings[a] = settings[b]) => settings[a] = Str(<<>>)
    /\ (pc # "start" /\ kwargs.passed /\ DOMAIN kwargs.kw \subseteq InitFields) =>
          IF C5_Collisions = {} THEN HasInstance
          ELSE /\ pc = "error"
               /\ err.type = "ValueError"
               /\ err.names \in C5_Collisions
               /\ \A a \in err.names : err.shows = {C5_Marker(a)}

C5_Witness ==
    /\ pc = "error"
    /\ source = "md"
    /\ err.names = {"docmark", "predocmark"}
    /\ err.shows = {Str(<<"!">>)}

\* C6: in every instance, after construction by any entry point and after any
\* number of normalise_paths calls, relative equals (project_url == "");
\* supplying 'relative' as an input key yields no instance at all.
C6_RelativeDerived ==
    /\ HasInstance =>
          settings["relative"] = Bool(settings["project_url"] = Str(<<>>))
    /\ ("relative" \in DOMAIN written /\ pc # "start") => ~HasInstance

C6_Witness ==
    /\ pc = "normalised"
    /\ settings["project_url"] = Str(s_url)
    /\ settings["relative"] = Bool(FALSE)

\* value resolved against dir: an absolute path stays, a relative one is
\* appended to dir
C7_Resolved(value, dir) ==
    LET p == ToPath(value)
    IN  IF Len(p.v) > 0 /\ p.v[1] = <<"/">> THEN p ELSE PosixPath(dir.v \o p.v)
C7_IsAbsolutePath(x) == x.t = "PosixPath" /\ Len(x.v) > 0 /\ x.v[1] = <<"/">>
C7_AllAbsolute ==
    pc = "normalised" =>
        /\ \A key \in PathFields :
              settings[key] # None => C7_IsAbsolutePath(settings[key])
        /\ \A key \in PathListFields :
              \A i \in DOMAIN settings[key].v : C7_IsAbsolutePath(settings[key].v[i])
C7_FirstCall ==
    (pc = "built" /\ pc' = "normalised") =>
        /\ \A key \in PathFields \ {"favicon"} :
              IF settings[key] = None
              THEN settings'[key] = IF key = "md_base_dir" THEN directory' ELSE None
              ELSE settings'[key] = C7_Resolved(settings[key], directory')
        /\ settings["favicon"] # PosixPath(<<s_favicon_png>>) =>
              settings'["favicon"] = C7_Resolved(settings["favicon"], directory')
        /\ \A key \in PathListFields :
              settings'[key] = List([i \in DOMAIN settings[key].v |->
                                        C7_Resolved(settings[key].v[i], directory')])
        /\ (directory' = PosixPath(<<Root, <<"p","r","o","j">> >>)
            /\ settings["output_dir"] = PosixPath(<<s_doc>>)) =>
              settings'["output_dir"] = PosixPath(<<Root, <<"p","r","o","j">>, s_doc>>)
C7_LaterCall ==
    (pc = "normalised" /\ pc' = "normalised") =>
        \A key \in PathFields \cup PathListFields : settings'[key] = settings[key]

\* C7: after normalise_paths(base) every path and path-list setting that is
\* not None is an absolute path, a relative input resolved against base and
\* an absolute one unchanged (md_base_dir, when None, becomes base); a later
\* call with any base leaves every path setting as the first call left it.
C7_NormalisePaths == []C7_AllAbsolute /\ [][C7_FirstCall /\ C7_LaterCall]_vars

C7_Witness ==
    /\ pc = "normalised"
    /\ "md_base_dir" \notin DOMAIN written
    /\ "output_dir" \notin DOMAIN written
    /\ settings["output_dir"] = PosixPath(<<Root, <<"p","r","o","j">>, s_doc>>)
    /\ settings["md_base_dir"] = PosixPath(<<Root, <<"p","r","o","j">> >>)
    /\ directory = PosixPath(<<Root, <<"c","w","d">> >>)

C8_Bundled == PosixPath(<<Root, <<"s","i","t","e">>, <<"f","o","r","d">>, s_favicon_png>>)
C8_Sentinel == PosixPath(<<s_favicon_png>>)
C8_State ==
    pc = "normalised" =>
        IF "favicon" \notin DOMAIN written \/ written["favicon"].py = C8_Sentinel
        THEN settings["favicon"] = C8_Bundled
        ELSE settings["favicon"] # C8_Bundled /\ C7_IsAbsolutePath(settings["favicon"])
C8_FirstCall ==
    (pc = "built" /\ pc' = "normalised") =>
        IF settings["favicon"] = C8_Sentinel
        THEN /\ settings'["favicon"] = C8_Bundled
             /\ settings'["favicon"] # PosixPath(directory'.v \o C8_Sentinel.v)
        ELSE /\ settings'["favicon"] = C7_Resolved(settings["favicon"], directory')
             /\ settings'["favicon"] # C8_Bundled
C8_LaterCall ==
    (pc = "normalised" /\ pc' = "normalised") =>
        settings'["favicon"] = settings["favicon"]

\* C8: a favicon left at its sentinel default becomes the bundled favicon
\* path (next to the settings module) at normalise_paths(base), for every
\* base and however many calls, never base joined with the sentinel; a
\* favicon the user set to another value is resolved against base like any
\* path and the bundled path is not substituted.
C8_FaviconDefault == []C8_State /\ [][C8_FirstCall /\ C8_LaterCall]_vars

C8_Witness ==
    /\ pc = "normalised"
    /\ "favicon" \notin DOMAIN written
    /\ settings["favicon"] = C8_Bundled
    /\ settings["md_base_dir"] # directory

C9_Typed(inst) ==
    \A key \in Fields :
        CASE FieldType(key) = "bool" -> inst[key].t = "bool"
          [] FieldType(key) = "int" -> inst[key].t = "int"
          [] FieldType(key) = "str" -> inst[key].t = "str"
          [] key \in ListFields -> IsList(inst[key])
          [] OTHER -> TRUE

\* C9: the same keys and logical values, written natively in the TOML table
\* and as preamble lines, give identical Settings instances from the two
\* loaders, every value of the type its schema entry declares, also when a
\* list-typed key is written as a single scalar.
C9_LoadersConverge ==
    (toml_out.status # "not run" /\ md_out.status # "not run") =>
        /\ toml_out.status = md_out.status
        /\ toml_out.status = "instance" =>
              /\ toml_out.inst = md_out.inst
              /\ C9_Typed(toml_out.inst)
              /\ C9_Typed(md_out.inst)

C10_Given(key) ==
    IF key \in DOMAIN kwargs.kw THEN kwargs.kw[key] ELSE FieldDefault(key)
C10_AsElems(x) == IF IsList(x) THEN Elems(x) ELSE {x}

\* C10: after construction 'extensions' holds exactly the elements of the
\* input extensions together with the elements of fpp_extensions (a scalar
\* input counting as the one-element list), each once, and fpp_extensions is
\* unchanged.
C10_ExtensionsUnion ==
    pc = "built" =>
        /\ IsList(settings["extensions"])
        /\ Elems(settings["extensions"]) =
              C10_AsElems(C10_Given("extensions")) \cup C10_AsElems(C10_Given("fpp_extensions"))
        /\ ListLen(settings["extensions"]) = Cardinality(Elems(settings["extensions"]))
        /\ settings["fpp_extensions"] = C10_Given("fpp_extensions")

====
